---- MODULE Spec2Model ----
(***************************************************************************)
(* Model of src/lib.rs: the conversion TryFrom<ConfigSerialize> for Config *)
(* (environment expansion, existence checks, library root resolution,     *)
(* include list assembly), the helper src_root and the get_type closure.  *)
(*                                                                         *)
(* A path or string is a sequence of tokens.  The token "/" is the path   *)
(* separator; every other token is one whole path segment ("src", ".",    *)
(* "main.cpp"), an environment reference ("$HOME") or a byte sequence     *)
(* that is not UTF-8 (BadBytes).                                           *)
(***************************************************************************)
EXTENDS Integers, Sequences, FiniteSets, TLC

VARIABLES value, env, pc, arduino_home, external_libraries_home,
          arduino_libraries, external_libraries, include_dirs, ret,
          ops, calls, pattern, gt_i, result, gt_ret

vars == <<value, env, pc, arduino_home, external_libraries_home,
          arduino_libraries, external_libraries, include_dirs, ret,
          ops, calls, pattern, gt_i, result, gt_ret>>

(* Bounds of the model. *)
MaxArduinoLibs == 2
MaxExternalLibs == 2

Sep == "/"
CurDir == "."
BadBytes == "\\xFF"
HomeVar == "$HOME"

(***************************************************************************)
(* std::path                                                               *)
(***************************************************************************)

(* Path::to_str: None when the path holds bytes that are not UTF-8. *)
ToStrOk(p) == \A i \in 1..Len(p) : p[i] # BadBytes

(* Path::is_absolute / has_root on Unix. *)
HasRoot(p) == Len(p) > 0 /\ p[1] = Sep

(* Path::components: separators are dropped (repeated ones too), "." is   *)
(* dropped everywhere except as the first component of a relative path,   *)
(* and a leading separator is the RootDir component.                       *)
Components(p) ==
  LET segs == SelectSeq(p, LAMBDA t : t # Sep)
      lead == IF ~HasRoot(p) /\ Len(segs) > 0 /\ segs[1] = CurDir
              THEN <<CurDir>> ELSE <<>>
  IN  (IF HasRoot(p) THEN <<Sep>> ELSE <<>>)
        \o lead \o SelectSeq(segs, LAMBDA t : t # CurDir)

(* PartialEq for PathBuf: equality of the component sequences. *)
PathEq(p, q) == Components(p) = Components(q)

(* PathBuf::join (push): an absolute argument replaces the path; a        *)
(* separator is added unless the path is empty or already ends with one.  *)
Join(p, q) ==
  IF HasRoot(q) THEN q
  ELSE IF Len(p) = 0 \/ p[Len(p)] = Sep THEN p \o q
  ELSE p \o <<Sep>> \o q

(* Path::ends_with(child) for a one-segment child: the last component. *)
EndsWith(p, name) ==
  LET c == Components(p)
  IN  Len(c) > 0 /\ c[Len(c)] = name /\ name # Sep

(***************************************************************************)
(* envmnt::expand(s, None): every environment reference is replaced by    *)
(* the variable's value, an unset variable by the empty string.            *)
(***************************************************************************)
RECURSIVE Expand(_, _)
Expand(s, e) ==
  IF s = <<>> THEN <<>>
  ELSE (IF Head(s) = HomeVar THEN e ELSE <<Head(s)>>) \o Expand(Tail(s), e)

(***************************************************************************)
(* The filesystem the conversion reads.  It is only read, never written.  *)
(* Entries are absolute, as sequences of segments below the root; the     *)
(* working directory is the root.  FileList is in the order the glob      *)
(* crate walks (depth first, entries sorted by name).                      *)
(***************************************************************************)
HomeDir == <<"home">>
Package == HomeDir \o <<"ard", "packaged", "arduino">>
GccDir == Package \o <<"tools", "avr-gcc", "7.3.0">>
CoreDir == Package \o <<"hardware", "avr", "1.8.6">>
LibDir == CoreDir \o <<"libraries">>
ExtDir == HomeDir \o <<"ext">>

FileList ==
  << LibDir \o <<"EEPROM", "EEPROM.cpp">>,
     LibDir \o <<"EEPROM", "SRC", "upper.cpp">>,
     LibDir \o <<"EEPROM", "Utility", "u.c">>,
     LibDir \o <<"EEPROM", "main.cpp">>,
     LibDir \o <<"SPI", "SPI.cpp">>,
     LibDir \o <<"SPI", "utility", "spi.c">>,
     LibDir \o <<"Servo", "src", "Servo.cpp">>,
     LibDir \o <<"Servo", "utility", "timer.c">>,
     LibDir \o <<"Wire", "src", "Wire.cpp">>,
     LibDir \o <<"Wire", "src", "Wire.h">>,
     LibDir \o <<"Wire", "src", "main.cpp">>,
     LibDir \o <<"Wire", "src", "utility", "main.cpp">>,
     LibDir \o <<"Wire", "src", "utility", "notmain.cpp">>,
     LibDir \o <<"Wire", "src", "utility", "twi.c">>,
     CoreDir \o <<"variants", "standard", "pins_arduino.h">>,
     GccDir \o <<"bin", "avr-gcc">>,
     GccDir \o <<"include", "stdio.h">>,
     ExtDir \o <<"Bar", "src", "b.cpp">>,
     ExtDir \o <<"Bar", "utility", "b.c">>,
     ExtDir \o <<"Foo", "Foo.cpp">>,
     ExtDir \o <<"Foo", "examples", "main.cpp">>,
     ExtDir \o <<"Foo", "foo.c">>,
     ExtDir \o <<"Priv", "p.cpp">> >>

Files == {FileList[i] : i \in 1..Len(FileList)}

(* Directories that hold no file. *)
EmptyDirs == {ExtDir \o <<"Priv", "secret">>}

(* Directories whose listing the operating system refuses. *)
Unreadable == {ExtDir \o <<"Priv", "secret">>}

IsPrefix(d, p) == Len(d) <= Len(p) /\ SubSeq(p, 1, Len(d)) = d

(* Every ancestor of a file or directory is a directory. *)
Dirs ==
  EmptyDirs \cup
  UNION {{SubSeq(q, 1, j) : j \in 0..(Len(q) - 1)} : q \in Files \cup EmptyDirs}

(* How the operating system resolves a path text: separators and "." are  *)
(* skipped, relative paths start at the working directory (the root).     *)
Canon(p) == SelectSeq(p, LAMBDA t : t # Sep /\ t # CurDir)

(* Path::exists *)
Exists(p) == Canon(p) \in (Dirs \cup Files)

(* fs::read_dir succeeds on a directory that exists and can be listed. *)
ReadDirOk(loc) == Canon(loc) \in (Dirs \ Unreadable)

ChildNames(d) ==
  {p[Len(d) + 1] : p \in {q \in Dirs \cup Files : Len(q) = Len(d) + 1 /\ IsPrefix(d, q)}}

(* DirEntry::path of every entry: the listed path joined with the name. *)
ReadDir(loc) == {Join(loc, <<n>>) : n \in ChildNames(Canon(loc))}

Ok(v) == [tag |-> "Ok", val |-> v]
Err(kind, path) == [tag |-> "Err", kind |-> kind, path |-> path]

(***************************************************************************)
(* fn src_root(loc)                                                        *)
(***************************************************************************)
(* Mutant: the children are compared as texts, so <loc>/./src is never    *)
(* found among them. *)
ContainsText(children, p) == p \in children

(* Vec::contains: some child equals the path (PathBuf equality). *)
Contains(children, p) == \E c \in children : PathEq(c, p)

(* Mutant: src is preferred when both children are there. *)
src_root_prefers_src(loc) ==
  IF ~ReadDirOk(loc) THEN Err("Io", <<>>)
  ELSE
    LET children == ReadDir(loc)
        src_path == Join(loc, <<CurDir, Sep, "src">>)
        utility_path == Join(loc, <<CurDir, Sep, "utility">>)
    IN  IF Contains(children, src_path) THEN Ok(src_path)
        ELSE IF Contains(children, utility_path) THEN Ok(utility_path)
        ELSE Ok(loc)

src_root(loc) ==
  IF ~ReadDirOk(loc) THEN Err("Io", <<>>)
  ELSE
    LET children == ReadDir(loc)
        src_path == Join(loc, <<CurDir, Sep, "src">>)
        utility_path == Join(loc, <<CurDir, Sep, "utility">>)
        src == Contains(children, src_path)
        utility == Contains(children, utility_path)
    IN  IF src /\ utility THEN Err("MalformedLib", loc)
        ELSE IF src THEN Ok(src_path)
        ELSE IF utility THEN Ok(utility_path)
        ELSE Ok(loc)

(***************************************************************************)
(* The glob crate and the get_type closure                                 *)
(***************************************************************************)
CppNames == {"EEPROM.cpp", "upper.cpp", "main.cpp", "SPI.cpp", "Servo.cpp",
             "Wire.cpp", "notmain.cpp", "b.cpp", "Foo.cpp", "p.cpp"}
CNames == {"u.c", "spi.c", "timer.c", "twi.c", "b.c", "foo.c"}

(* Pattern::matches on a file name, for the patterns "*.cpp" and "*.c". *)
Matches(name, pat) ==
  \/ pat = "*.cpp" /\ name \in CppNames
  \/ pat = "*.c" /\ name \in CNames

RECURSIVE RelText(_)
RelText(segs) ==
  IF Len(segs) = 0 THEN <<>>
  ELSE IF Len(segs) = 1 THEN segs
  ELSE <<Head(segs), Sep>> \o RelText(Tail(segs))

(* Mutant: glob("<dir>/<pat>"), the files directly in dir only. *)
GlobShallow(dir, pat) ==
  LET root == Canon(dir)
      found == SelectSeq(FileList, LAMBDA f :
                 /\ root \in Dirs
                 /\ IsPrefix(root, f)
                 /\ Len(f) = Len(root) + 1
                 /\ Matches(f[Len(f)], pat))
  IN  [i \in 1..Len(found) |-> Ok(dir \o <<Sep, found[i][Len(found[i])]>>)]

(* glob("<dir>/**/<pat>"): the files at any depth below dir whose name    *)
(* matches, each as the text of dir followed by the path below it, and an *)
(* error item for a directory below dir that cannot be listed.  A dir     *)
(* that does not exist, or is a file, gives no item.                      *)
Glob(dir, pat) ==
  LET root == Canon(dir)
      found == SelectSeq(FileList, LAMBDA f :
                 /\ root \in Dirs
                 /\ IsPrefix(root, f)
                 /\ Matches(f[Len(f)], pat))
      paths == [i \in 1..Len(found) |->
                 Ok(dir \o <<Sep>> \o
                    RelText(SubSeq(found[i], Len(root) + 1, Len(found[i]))))]
      errors == IF \E d \in Unreadable : IsPrefix(root, d) /\ root \in Dirs
                THEN <<Err("GlobIterationError", dir)>> ELSE <<>>
  IN  paths \o errors

(* Mutant: nothing is dropped. *)
FilterMapKeepsAll(items) == items

(* The filter_map closure of lines 139-149: errors pass, a path that ends *)
(* with main.cpp is dropped. *)
FilterMap(items) ==
  SelectSeq(items, LAMBDA it : it.tag = "Err" \/ ~EndsWith(it.val, "main.cpp"))

(* collect::<Result<Vec<_>, _>>: the first error, else all the values. *)
Collect(items) ==
  IF \E i \in 1..Len(items) : items[i].tag = "Err"
  THEN items[CHOOSE i \in 1..Len(items) :
               /\ items[i].tag = "Err"
               /\ \A j \in 1..(i - 1) : items[j].tag = "Ok"]
  ELSE Ok([i \in 1..Len(items) |-> items[i].val])

(* One iteration of the loop of get_type: the files of one directory. *)
FilesOf(file, pat) ==
  IF ~ToStrOk(file) THEN Err("ConvertFailed", file)
  ELSE Collect(FilterMap(Glob(file, pat)))

(***************************************************************************)
(* The inputs: the ConfigSerialize values and the process environment.     *)
(***************************************************************************)
SeqsUpTo(S, n) == UNION {[1..k -> S] : k \in 0..n}

ArduinoHomes == {<<HomeVar, Sep, "ard">>, <<Sep, "nope">>, <<Sep, "home", Sep, BadBytes>>}
ExternalHomes == {<<HomeVar, Sep, "ext">>, <<Sep, "gone">>, <<BadBytes>>}
HomeValues == {<<Sep, "home">>, <<>>}
GccVersions == {<<"7.3.0">>, <<"9.9.9">>}
ArduinoLibNames == {<<"Wire">>, <<"SPI">>, <<"Servo">>, <<"EEPROM">>}
ExternalLibNames == {<<"Foo">>, <<"Bar">>, <<"Priv">>, <<"Nope">>}
Patterns == {"*.cpp", "*.c"}

BindgenLists ==
  [allowlist_function |-> <<"f", "f">>, allowlist_type |-> <<"T">>,
   blocklist_function |-> <<"f">>, blocklist_type |-> <<>>]

ConfigSerialize ==
  [arduino_home : ArduinoHomes,
   external_libraries_home : ExternalHomes,
   core_version : {<<"1.8.6">>},
   variant : {<<"standard">>},
   avr_gcc_version : GccVersions,
   arduino_libraries : SeqsUpTo(ArduinoLibNames, MaxArduinoLibs),
   external_libraries : SeqsUpTo(ExternalLibNames, MaxExternalLibs),
   flags : {<<"-mmcu=atmega328p">>},
   bindgen_lists : {BindgenLists}]

None == [tag |-> "None"]

Init ==
  /\ value \in ConfigSerialize
  /\ env \in HomeValues
  /\ pc = "to_str"
  /\ arduino_home = <<>>
  /\ external_libraries_home = <<>>
  /\ arduino_libraries = <<>>
  /\ external_libraries = <<>>
  /\ include_dirs = <<>>
  /\ ret = None
  /\ ops = <<>>
  /\ calls = <<>>
  /\ pattern = ""
  /\ gt_i = 0
  /\ result = <<>>
  /\ gt_ret = None

(***************************************************************************)
(* impl TryFrom<ConfigSerialize> for Config: the locals of try_from       *)
(***************************************************************************)
arduino_package_path == Join(Join(arduino_home, <<"packaged">>), <<"arduino">>)
avr_gcc_home ==
  Join(Join(Join(arduino_package_path, <<"tools">>), <<"avr-gcc">>), value.avr_gcc_version)
core_path ==
  Join(Join(Join(arduino_package_path, <<"hardware">>), <<"avr">>), value.core_version)
avr_gcc_bin == Join(Join(avr_gcc_home, <<"bin">>), <<"avr-gcc">>)
arduino_includes ==
  << Join(Join(Join(core_path, <<"hardware">>), <<"avr">>), value.core_version),
     Join(Join(core_path, <<"variants">>), value.variant),
     Join(avr_gcc_home, <<"include">>) >>
library_path == Join(core_path, <<"libraries">>)

Return(r) == ret' = r /\ pc' = "done"

gt_vars == <<pattern, gt_i, result, gt_ret>>
lib_vars == <<arduino_libraries, external_libraries, include_dirs, calls>>

(* Lines 68-80: both homes as text, then expanded. *)
ToStr ==
  /\ pc = "to_str"
  /\ IF ~ToStrOk(value.arduino_home)
     THEN Return(Err("ArduinoHomeNoString", value.arduino_home))
          /\ UNCHANGED <<arduino_home, external_libraries_home>>
     ELSE IF ~ToStrOk(value.external_libraries_home)
     THEN Return(Err("ExternalLibrariesHomeNoString", value.external_libraries_home))
          /\ UNCHANGED <<arduino_home, external_libraries_home>>
     ELSE /\ arduino_home' = Expand(value.arduino_home, env)
          /\ external_libraries_home' = Expand(value.external_libraries_home, env)
          /\ pc' = "arduino_home"
          /\ UNCHANGED ret
  /\ UNCHANGED <<value, env, ops>>
  /\ UNCHANGED lib_vars
  /\ UNCHANGED gt_vars

(* Mutant: the existence of arduino_home is not checked. *)
CheckArduinoHomeSkipped ==
  /\ pc = "arduino_home"
  /\ pc' = "external_libraries_home"
  /\ UNCHANGED <<value, env, arduino_home, external_libraries_home, ret, ops>>
  /\ UNCHANGED lib_vars
  /\ UNCHANGED gt_vars

(* Lines 81-83 *)
CheckArduinoHome ==
  /\ pc = "arduino_home"
  /\ ops' = Append(ops, [op |-> "exists", path |-> arduino_home])
  /\ IF ~Exists(arduino_home)
     THEN Return(Err("ArduinoHomeNoExist", arduino_home))
     ELSE pc' = "external_libraries_home" /\ UNCHANGED ret
  /\ UNCHANGED <<value, env, arduino_home, external_libraries_home>>
  /\ UNCHANGED lib_vars
  /\ UNCHANGED gt_vars

(* Lines 84-88 *)
CheckExternalLibrariesHome ==
  /\ pc = "external_libraries_home"
  /\ ops' = Append(ops, [op |-> "exists", path |-> external_libraries_home])
  /\ IF ~Exists(external_libraries_home)
     THEN Return(Err("ExternalLibrariesHomeNoExist", external_libraries_home))
     ELSE pc' = "avr_gcc" /\ UNCHANGED ret
  /\ UNCHANGED <<value, env, arduino_home, external_libraries_home>>
  /\ UNCHANGED lib_vars
  /\ UNCHANGED gt_vars

(* Mutant: the existence of the compiler is not checked. *)
CheckAvrGccSkipped ==
  /\ pc = "avr_gcc"
  /\ pc' = "arduino_libraries"
  /\ UNCHANGED <<value, env, arduino_home, external_libraries_home, ret, ops>>
  /\ UNCHANGED lib_vars
  /\ UNCHANGED gt_vars

(* Lines 90-102 *)
CheckAvrGcc ==
  /\ pc = "avr_gcc"
  /\ ops' = Append(ops, [op |-> "exists", path |-> avr_gcc_bin])
  /\ IF ~Exists(avr_gcc_bin)
     THEN Return(Err("NoAvrGcc", avr_gcc_bin))
     ELSE pc' = "arduino_libraries" /\ UNCHANGED ret
  /\ UNCHANGED <<value, env, arduino_home, external_libraries_home>>
  /\ UNCHANGED lib_vars
  /\ UNCHANGED gt_vars

(* Mutant: a library that fails is kept as its base directory and the    *)
(* map goes on to the next one. *)
ResolveArduinoLibraryKeepsGoing ==
  /\ pc = "arduino_libraries"
  /\ LET i == Len(arduino_libraries) + 1
     IN  IF i > Len(value.arduino_libraries)
         THEN /\ pc' = "external_libraries"
              /\ UNCHANGED <<arduino_libraries, ops, calls>>
         ELSE LET loc == Join(library_path, value.arduino_libraries[i])
                  r == src_root(loc)
              IN  /\ ops' = Append(ops, [op |-> "read_dir", path |-> loc])
                  /\ calls' = Append(calls, [loc |-> loc, ret |-> r])
                  /\ arduino_libraries' =
                       Append(arduino_libraries, IF r.tag = "Ok" THEN r.val ELSE loc)
                  /\ UNCHANGED pc
  /\ UNCHANGED <<value, env, arduino_home, external_libraries_home, ret>>
  /\ UNCHANGED <<external_libraries, include_dirs>>
  /\ UNCHANGED gt_vars

(* Lines 112-119: one step of the map over value.arduino_libraries; the   *)
(* collect into a Result stops at the first error, which `?` returns.     *)
ResolveArduinoLibrary ==
  /\ pc = "arduino_libraries"
  /\ LET i == Len(arduino_libraries) + 1
     IN  IF i > Len(value.arduino_libraries)
         THEN /\ pc' = "external_libraries"
              /\ UNCHANGED <<arduino_libraries, ret, ops, calls>>
         ELSE LET loc == Join(library_path, value.arduino_libraries[i])
                  r == src_root(loc)
              IN  /\ ops' = Append(ops, [op |-> "read_dir", path |-> loc])
                  /\ calls' = Append(calls, [loc |-> loc, ret |-> r])
                  /\ IF r.tag = "Ok"
                     THEN /\ arduino_libraries' = Append(arduino_libraries, r.val)
                          /\ UNCHANGED <<pc, ret>>
                     ELSE Return(r) /\ UNCHANGED arduino_libraries
  /\ UNCHANGED <<value, env, arduino_home, external_libraries_home>>
  /\ UNCHANGED <<external_libraries, include_dirs>>
  /\ UNCHANGED gt_vars

(* Lines 120-124 *)
ResolveExternalLibrary ==
  /\ pc = "external_libraries"
  /\ LET i == Len(external_libraries) + 1
     IN  IF i > Len(value.external_libraries)
         THEN /\ pc' = "include_dirs"
              /\ UNCHANGED <<external_libraries, ret, ops, calls>>
         ELSE LET loc == Join(external_libraries_home, value.external_libraries[i])
                  r == src_root(loc)
              IN  /\ ops' = Append(ops, [op |-> "read_dir", path |-> loc])
                  /\ calls' = Append(calls, [loc |-> loc, ret |-> r])
                  /\ IF r.tag = "Ok"
                     THEN /\ external_libraries' = Append(external_libraries, r.val)
                          /\ UNCHANGED <<pc, ret>>
                     ELSE Return(r) /\ UNCHANGED external_libraries
  /\ UNCHANGED <<value, env, arduino_home, external_libraries_home>>
  /\ UNCHANGED <<arduino_libraries, include_dirs>>
  /\ UNCHANGED gt_vars

(* Mutant: the external libraries are put before the Arduino libraries.   *)
IncludeDirsExternalFirst(fixed, arduino, external) == fixed \o external \o arduino

(* Lines 125-127 *)
IncludeDirs(fixed, arduino, external) == fixed \o arduino \o external

AssembleIncludeDirs ==
  /\ pc = "include_dirs"
  /\ include_dirs' = IncludeDirs(arduino_includes, arduino_libraries, external_libraries)
  /\ pc' = "todo"
  /\ UNCHANGED <<value, env, arduino_home, external_libraries_home>>
  /\ UNCHANGED <<arduino_libraries, external_libraries, calls, ret, ops>>
  /\ UNCHANGED gt_vars

(* Line 154: todo!() panics; get_type was defined and never called, and   *)
(* no Config is built. *)
Todo ==
  /\ pc = "todo"
  /\ Return([tag |-> "Panic"])
  /\ UNCHANGED <<value, env, arduino_home, external_libraries_home, ops>>
  /\ UNCHANGED lib_vars
  /\ UNCHANGED gt_vars

Next ==
  \/ ToStr
  \/ CheckArduinoHome
  \/ CheckExternalLibrariesHome
  \/ CheckAvrGcc
  \/ ResolveArduinoLibrary
  \/ ResolveExternalLibrary
  \/ AssembleIncludeDirs
  \/ Todo

Spec == Init /\ [][Next]_vars

(***************************************************************************)
(* The get_type closure (lines 129-153), applied to a pattern in the      *)
(* state where it is defined: include_dirs assembled.                      *)
(***************************************************************************)
GetTypeCall ==
  /\ pc = "todo"
  /\ \E p \in Patterns : pattern' = p
  /\ result' = <<>>
  /\ gt_i' = 1
  /\ pc' = "get_type"
  /\ UNCHANGED <<value, env, arduino_home, external_libraries_home, ops, ret, gt_ret>>
  /\ UNCHANGED lib_vars

GetTypeLoop ==
  /\ pc = "get_type"
  /\ IF gt_i > Len(include_dirs)
     THEN /\ gt_ret' = Ok(result)
          /\ pc' = "get_type_done"
          /\ UNCHANGED <<gt_i, result, ops>>
     ELSE LET files == FilesOf(include_dirs[gt_i], pattern)
          IN  /\ ops' = Append(ops, [op |-> "glob", path |-> include_dirs[gt_i]])
              /\ IF files.tag = "Ok"
                 THEN /\ result' = result \o files.val
                      /\ gt_i' = gt_i + 1
                      /\ UNCHANGED <<pc, gt_ret>>
                 ELSE /\ gt_ret' = files
                      /\ pc' = "get_type_done"
                      /\ UNCHANGED <<gt_i, result>>
  /\ UNCHANGED <<value, env, arduino_home, external_libraries_home, ret, pattern>>
  /\ UNCHANGED lib_vars

NextGetType ==
  \/ ToStr
  \/ CheckArduinoHome
  \/ CheckExternalLibrariesHome
  \/ CheckAvrGcc
  \/ ResolveArduinoLibrary
  \/ ResolveExternalLibrary
  \/ AssembleIncludeDirs
  \/ GetTypeCall
  \/ GetTypeLoop

SpecGetType == Init /\ [][NextGetType]_vars

(***************************************************************************)
(* Properties                                                              *)
(***************************************************************************)
HasChild(loc, name) == name \in ChildNames(Canon(loc))
SrcOnly(loc) == ReadDirOk(loc) /\ HasChild(loc, "src") /\ ~HasChild(loc, "utility")
UtilityOnly(loc) == ReadDirOk(loc) /\ ~HasChild(loc, "src") /\ HasChild(loc, "utility")
Neither(loc) == ReadDirOk(loc) /\ ~HasChild(loc, "src") /\ ~HasChild(loc, "utility")
Both(loc) == ReadDirOk(loc) /\ HasChild(loc, "src") /\ HasChild(loc, "utility")

(* C1: for every src_root call on a base directory that can be listed,    *)
(* the result is <base>/src when the children include src and not         *)
(* utility, <base>/utility when they include utility and not src, and     *)
(* <base> itself when they include neither, whatever the other children   *)
(* are (paths compared as PathBuf compares them).                          *)
C1_SrcRootDecision ==
  \A k \in 1..Len(calls) :
    LET loc == calls[k].loc
        r == calls[k].ret
    IN  /\ SrcOnly(loc) => r.tag = "Ok" /\ PathEq(r.val, loc \o <<Sep, "src">>)
        /\ UtilityOnly(loc) => r.tag = "Ok" /\ PathEq(r.val, loc \o <<Sep, "utility">>)
        /\ Neither(loc) => r = Ok(loc)

(* A library with only src and a library whose children are SRC, Utility  *)
(* and files (no src, no utility) have both been resolved. *)
C1_Witness ==
  /\ \E k \in 1..Len(calls) : SrcOnly(calls[k].loc) /\ calls[k].ret.tag = "Ok"
  /\ \E k \in 1..Len(calls) :
       /\ Neither(calls[k].loc)
       /\ HasChild(calls[k].loc, "SRC")
       /\ calls[k].ret.tag = "Ok"
  /\ pc = "todo"

(* C2: a src_root call on a base directory with both src and utility      *)
(* fails with MalformedLib carrying that base directory, and the          *)
(* conversion ends there with that error: no Config is produced.           *)
C2_AmbiguousLayoutFails ==
  \A k \in 1..Len(calls) :
    Both(calls[k].loc) =>
      /\ calls[k].ret = Err("MalformedLib", calls[k].loc)
      /\ k = Len(calls)
      /\ pc = "done"
      /\ ret = Err("MalformedLib", calls[k].loc)

(* An external library with both children fails the conversion after the  *)
(* libraries before it resolved. *)
C2_Witness ==
  /\ pc = "done"
  /\ Len(calls) >= 2
  /\ Both(calls[Len(calls)].loc)
  /\ Len(arduino_libraries) >= 1
  /\ ret.tag = "Err"

(* C3: every conversion that ends, ends with a Config or with one error.  *)
C3_ConfigOrError == pc = "done" => ret.tag \in {"Ok", "Err"}

(* The library bases in resolution order, as texts. *)
LibraryBase(k) ==
  IF k <= Len(value.arduino_libraries)
  THEN arduino_home
         \o <<Sep, "packaged", Sep, "arduino", Sep, "hardware", Sep, "avr", Sep>>
         \o value.core_version \o <<Sep, "libraries", Sep>> \o value.arduino_libraries[k]
  ELSE external_libraries_home \o <<Sep>>
         \o value.external_libraries[k - Len(value.arduino_libraries)]

NumLibraries == Len(value.arduino_libraries) + Len(value.external_libraries)

(* C4: once the include list is assembled it is the core directory, the   *)
(* variant directory, the toolchain include directory, then the resolved  *)
(* root of every Arduino library and of every external library in        *)
(* description order: 3 + |arduino_libraries| + |external_libraries|      *)
(* entries, duplicates kept.                                               *)
C4_IncludeList ==
  pc \in {"todo", "get_type", "get_type_done"} \/ (pc = "done" /\ ret.tag = "Panic") =>
    LET core == arduino_home
                  \o <<Sep, "packaged", Sep, "arduino", Sep, "hardware", Sep, "avr", Sep>>
                  \o value.core_version
    IN  /\ Len(include_dirs) = 3 + NumLibraries
        /\ PathEq(include_dirs[1],
                  core \o <<Sep, "hardware", Sep, "avr", Sep>> \o value.core_version)
        /\ PathEq(include_dirs[2], core \o <<Sep, "variants", Sep>> \o value.variant)
        /\ PathEq(include_dirs[3],
                  arduino_home
                    \o <<Sep, "packaged", Sep, "arduino", Sep, "tools", Sep, "avr-gcc", Sep>>
                    \o value.avr_gcc_version \o <<Sep, "include">>)
        /\ Len(calls) = NumLibraries
        /\ \A k \in 1..NumLibraries :
             /\ PathEq(calls[k].loc, LibraryBase(k))
             /\ calls[k].ret = Ok(include_dirs[3 + k])

(* A list with a duplicated Arduino library and two external libraries.   *)
C4_Witness ==
  /\ pc = "todo"
  /\ value.arduino_libraries = << <<"Wire">>, <<"Wire">> >>
  /\ value.external_libraries = << <<"Priv">>, <<"Foo">> >>
  /\ Len(include_dirs) = 7

HomesAreText == ToStrOk(value.arduino_home) /\ ToStrOk(value.external_libraries_home)
ArduinoHomeMissing ==
  ToStrOk(value.arduino_home) /\ ~Exists(Expand(value.arduino_home, env))

(* C5 as stated: when the expanded arduino_home does not exist, the       *)
(* conversion fails with ArduinoHomeNoExist carrying the expanded path,   *)
(* with no other filesystem operation before it.                           *)
C5_Original ==
  ArduinoHomeMissing /\ pc = "done" =>
    /\ ret = Err("ArduinoHomeNoExist", Expand(value.arduino_home, env))
    /\ ops = << [op |-> "exists", path |-> Expand(value.arduino_home, env)] >>

(* C5 amended: when both homes are representable as text and the expanded *)
(* arduino_home does not exist, the conversion fails with                 *)
(* ArduinoHomeNoExist carrying the expanded path, and the existence check *)
(* of arduino_home is the only filesystem operation performed.             *)
C5_ArduinoHomeMissing ==
  ArduinoHomeMissing /\ HomesAreText /\ pc \notin {"to_str", "arduino_home"} =>
    /\ pc = "done"
    /\ ret = Err("ArduinoHomeNoExist", Expand(value.arduino_home, env))
    /\ ops = << [op |-> "exists", path |-> Expand(value.arduino_home, env)] >>
    /\ calls = <<>>

(* $HOME is unset, so $HOME/ard expands to /ard, which does not exist.    *)
C5_Witness ==
  /\ pc = "done"
  /\ env = <<>>
  /\ value.arduino_home = <<HomeVar, Sep, "ard">>
  /\ ret = Err("ArduinoHomeNoExist", <<Sep, "ard">>)

HomesValid ==
  /\ HomesAreText
  /\ Exists(Expand(value.arduino_home, env))
  /\ Exists(Expand(value.external_libraries_home, env))

DerivedAvrGcc ==
  Expand(value.arduino_home, env)
    \o <<Sep, "packaged", Sep, "arduino", Sep, "tools", Sep, "avr-gcc", Sep>>
    \o value.avr_gcc_version \o <<Sep, "bin", Sep, "avr-gcc">>

(* C6: when both homes pass validation and the derived compiler path does *)
(* not exist, the conversion fails with NoAvrGcc carrying exactly that    *)
(* path; no library directory is listed and no glob is run.                *)
C6_NoAvrGcc ==
  HomesValid /\ ~Exists(DerivedAvrGcc)
    /\ pc \notin {"to_str", "arduino_home", "external_libraries_home", "avr_gcc"} =>
      /\ pc = "done"
      /\ ret = Err("NoAvrGcc", DerivedAvrGcc)
      /\ calls = <<>>
      /\ \A i \in 1..Len(ops) : ops[i].op = "exists"

(* The toolchain version 9.9.9 is not installed; libraries were named.    *)
C6_Witness ==
  /\ pc = "done"
  /\ ret.tag = "Err" /\ ret.kind = "NoAvrGcc"
  /\ value.avr_gcc_version = <<"9.9.9">>
  /\ Len(value.arduino_libraries) >= 1
  /\ Len(value.external_libraries) >= 1

FinalSegment(p) == p[Len(p)]

NotMainFile == LibDir \o <<"Wire", "src", "utility", "notmain.cpp">>

ConfigFields == {"includes", "avr_gcc", "cpp_files", "c_files"}
SymbolFilterFields ==
  {"allowlist_function", "allowlist_type", "blocklist_function", "blocklist_type"}

(* C8: a conversion that ends without an error returns a Config that      *)
(* holds the four allow/block lists of the description unchanged.          *)
C8_SymbolFilterForwarded ==
  pc = "done" /\ ret.tag # "Err" =>
    /\ ret.tag = "Ok"
    /\ SymbolFilterFields \subseteq ConfigFields
    /\ \A f \in SymbolFilterFields : ret.val[f] = value.bindgen_lists[f]

LibraryFails(k) == ~ReadDirOk(LibraryBase(k)) \/ Both(LibraryBase(k))

(* C9: the k-th src_root call is on the k-th library of arduino_libraries *)
(* followed by external_libraries; a failed call is the last one, its     *)
(* error (MalformedLib for both children, Io for a directory that cannot  *)
(* be listed) is the error returned, every library before it resolved,    *)
(* and only the directories of the calls made were listed.                 *)
C9_FirstFailure ==
  /\ Len(calls) <= NumLibraries
  /\ \A k \in 1..Len(calls) :
       /\ PathEq(calls[k].loc, LibraryBase(k))
       /\ \A j \in 1..(k - 1) : ~LibraryFails(j) /\ calls[j].ret.tag = "Ok"
       /\ LibraryFails(k) =>
            /\ k = Len(calls)
            /\ pc = "done"
            /\ ret = calls[k].ret
            /\ ret.tag = "Err"
            /\ ret.kind = IF Both(LibraryBase(k)) THEN "MalformedLib" ELSE "Io"
  /\ SelectSeq(ops, LAMBDA o : o.op = "read_dir")
       = [k \in 1..Len(calls) |-> [op |-> "read_dir", path |-> calls[k].loc]]
  /\ (pc = "done" /\ ret.tag = "Err" /\ ret.kind \in {"Io", "MalformedLib"}) =>
       Len(calls) >= 1 /\ LibraryFails(Len(calls))

(* The first external library does not exist; one more is named after it. *)
C9_Witness ==
  /\ pc = "done"
  /\ ret.tag = "Err" /\ ret.kind = "Io"
  /\ Len(value.arduino_libraries) >= 1
  /\ value.external_libraries = << <<"Nope">>, <<"Bar">> >>
  /\ Len(calls) = Len(value.arduino_libraries) + 1

(* The files below dir whose name matches pat, in walk order; a dir that  *)
(* does not exist has none. *)
Matching(dir, pat) ==
  SelectSeq(FileList, LAMBDA f :
    /\ Canon(dir) \in Dirs
    /\ IsPrefix(Canon(dir), f)
    /\ Matches(FinalSegment(f), pat))

RECURSIVE ConcatMatching(_, _, _)
ConcatMatching(dirs, pat, all) ==
  IF dirs = <<>> THEN <<>>
  ELSE SelectSeq(Matching(Head(dirs), pat),
                 LAMBDA f : all \/ FinalSegment(f) # "main.cpp")
         \o ConcatMatching(Tail(dirs), pat, all)

Returned == [i \in 1..Len(gt_ret.val) |-> Canon(gt_ret.val[i])]

====
